---- MODULE Spec2Model ----
(***************************************************************************)
(* Model of vsc-reporting's usage report scripts                           *)
(*   bin/slurm_monthly_usage.py  (flat roster, "monthly")                  *)
(*   bin/slurm_report_usage.py   (grouped yaml roster, "report_usage")     *)
(* Both scripts are Python 2 (ConfigParser import, python2-pyyaml), so     *)
(* len(lines)/2 is floor division.                                         *)
(*                                                                         *)
(* Text is modelled as what the code sees: a string is a sequence of       *)
(* one-character strings, the command's stdout is the sequence of lines    *)
(* output.splitlines() yields.  A Python exception is a value of `exc`     *)
(* other than "none"; the code defines no exception class of its own, so   *)
(* report raises only the built-in IndexError and ValueError.  CLI.main    *)
(* wraps do: make_time, do, final, post, epilogue; exit_from_errorcode     *)
(* leaves the process through sys.exit, so finally blocks still run.       *)
(***************************************************************************)
EXTENDS Integers, Sequences, FiniteSets, TLC

VARIABLES
    script,         \* which of the two scripts runs
    userfile,       \* contents of options.userfile
    start,          \* options.start
    end,            \* options.end
    stdout,         \* what the sreport command prints, per cluster
    opt_cluster,    \* options.cluster (<<>> when not given)
    dry_run,        \* options.dry_run
    clusters,       \* do's local `clusters`
    idx,            \* position of do's for loop in clusters
    errors,         \* main's local `errors`
    steps,          \* the steps of main called so far, in order
    exiting,        \* exit requested by exit_from_errorcode ("no" if none)
    write_calls,    \* calls of write_timestamp so far
    pc,             \* position inside main/do/report; stays at the statement that raised
    exc,            \* exception propagating out of report ("none" if none)
    users,          \* self.users
    sreport_command,\* formatted command (startdate, enddate)
    output,         \* report's local `output`
    info,           \* report's local `info`
    relevant_info   \* report's local `relevant_info`

vars == <<script, userfile, start, end, stdout, pc, exc, users,
          sreport_command, output, info, relevant_info,
          opt_cluster, dry_run, clusters, idx, errors, steps, exiting,
          write_calls>>

\* options and main's bookkeeping
mainvars == <<opt_cluster, dry_run, errors, steps, exiting, write_calls>>

\* do's loop over the clusters
loopvars == <<clusters, idx>>

(***************************************************************************)
(* Bounds of the model                                                     *)
(***************************************************************************)
MaxRows == 4
MaxUserLines == 2

(***************************************************************************)
(* Strings                                                                 *)
(***************************************************************************)
DigitChars == <<"0", "1", "2", "3", "4", "5", "6", "7", "8", "9">>

IsDigit(c) == \E i \in 1..10 : DigitChars[i] = c

DigitVal(c) == (CHOOSE i \in 1..10 : DigitChars[i] = c) - 1

IsSpace(c) == c \in {" ", "\t", "\n", "\r"}

\* str.split(sep): the fields between occurrences of sep, always at least one
Split(s, sep) ==
    LET RECURSIVE go(_, _, _)
        go(i, cur, acc) ==
            IF i > Len(s) THEN Append(acc, cur)
            ELSE IF s[i] = sep THEN go(i + 1, <<>>, Append(acc, cur))
            ELSE go(i + 1, Append(cur, s[i]), acc)
    IN go(1, <<>>, <<>>)

\* str.rstrip(): drop trailing whitespace
RECURSIVE RStrip(_)
RStrip(s) ==
    IF s # <<>> /\ IsSpace(s[Len(s)]) THEN RStrip(SubSeq(s, 1, Len(s) - 1))
    ELSE s

RECURSIVE LStrip(_)
LStrip(s) == IF s # <<>> /\ IsSpace(s[1]) THEN LStrip(Tail(s)) ELSE s

\* str.startswith(prefix)
StartsWith(s, prefix) ==
    Len(s) >= Len(prefix) /\ SubSeq(s, 1, Len(prefix)) = prefix

\* value of a sequence of decimal digits
RECURSIVE DigitsValue(_)
DigitsValue(ds) ==
    IF ds = <<>> THEN 0
    ELSE 10 * DigitsValue(SubSeq(ds, 1, Len(ds) - 1)) + DigitVal(ds[Len(ds)])

AllDigits(s) == s # <<>> /\ \A i \in 1..Len(s) : IsDigit(s[i])

\* int(s): surrounding whitespace and one sign are accepted; anything else
\* raises ValueError
PyInt(s) ==
    LET t == RStrip(LStrip(s))
        signed == t # <<>> /\ t[1] \in {"+", "-"}
        body == IF signed THEN Tail(t) ELSE t
    IN IF AllDigits(body)
       THEN [ok |-> TRUE,
             val |-> IF signed /\ t[1] = "-" THEN 0 - DigitsValue(body)
                     ELSE DigitsValue(body)]
       ELSE [ok |-> FALSE, val |-> 0]

(***************************************************************************)
(* UsageReport.process                                                     *)
(***************************************************************************)
EmptyMap == [u \in {} |-> [cpu |-> 0, gpu |-> 0]]

\* UsageInfo = namedtuple("UsageInfo", ["cpu", "gpu"])
UsageInfo(c, g) == [cpu |-> c, gpu |-> g]

\* sep = re.compile(r'^--*$'); sep.match(l)
SepMatch(l) == l # <<>> /\ \A i \in 1..Len(l) : l[i] = "-"

\* Drop without its [1:]: the boundary line itself is kept
DropKeepsBoundary(ls) ==
    IF \E i \in 1..Len(ls) : SepMatch(ls[i])
    THEN LET first == CHOOSE i \in 1..Len(ls) :
                          SepMatch(ls[i]) /\ \A j \in 1..(i - 1) : ~SepMatch(ls[j])
         IN SubSeq(ls, first, Len(ls))
    ELSE <<>>

\* drop = lambda ls, f: list(dropwhile(lambda l: not(f(l)), ls))[1:]
Drop(ls) ==
    IF \E i \in 1..Len(ls) : SepMatch(ls[i])
    THEN LET first == CHOOSE i \in 1..Len(ls) :
                          SepMatch(ls[i]) /\ \A j \in 1..(i - 1) : ~SepMatch(ls[j])
         IN SubSeq(ls, first + 1, Len(ls))
    ELSE <<>>

\* user_info[user] = UsageInfo(...)
DictSet(d, k, v) == [x \in DOMAIN d \cup {k} |-> IF x = k THEN v ELSE d[x]]

\* PairCount with an off-by-one: range(0, (len(lines) - 1)/2)
PairCountOffByOne(rows) == (Len(rows) - 1) \div 2

\* range(0, len(lines)/2), Python 2 floor division
PairCount(rows) == Len(rows) \div 2

\* the for loop of process from iteration i (0-based) on
RECURSIVE ProcessRows(_, _, _)
ProcessRows(rows, i, user_info) ==
    IF i >= PairCount(rows) THEN [exc |-> "none", value |-> user_info]
    ELSE
        LET cpu_line == Split(rows[2 * i + 1], "|")
            gpu_line == Split(rows[2 * i + 2], "|")
        IN IF Len(cpu_line) < 2
           THEN [exc |-> "IndexError", value |-> EmptyMap]
           ELSE
               LET user == cpu_line[2]
                   cpu_usage == PyInt(cpu_line[Len(cpu_line)])
                   gpu_usage == PyInt(gpu_line[Len(gpu_line)])
               IN IF ~cpu_usage.ok \/ ~gpu_usage.ok
                  THEN [exc |-> "ValueError", value |-> EmptyMap]
                  ELSE ProcessRows(rows, i + 1,
                           DictSet(user_info, user,
                                   UsageInfo(cpu_usage.val, gpu_usage.val)))

\* process(output): what it returns (exc = "none") or raises
process(lines0) ==
    LET lines == Drop(Drop(lines0))
    IN IF lines = <<>>
       THEN [exc |-> "IndexError", value |-> EmptyMap]   \* lines[0]
       ELSE ProcessRows(Tail(lines), 0, EmptyMap)

(***************************************************************************)
(* UsageReport.convert_date                                                *)
(*   strftime("%M/%d/%y", strptime(date, "%d/%M/%Y"))                      *)
(* %M is the MINUTE directive in both calls and %y the two-digit year.     *)
(***************************************************************************)
Pad2(n) == <<DigitChars[(n \div 10) + 1], DigitChars[(n % 10) + 1]>>

\* %d of strptime: 3[0-1]|[1-2]\d|0[1-9]|[1-9]| [1-9]
DayField(s) ==
    \/ Len(s) = 1 /\ IsDigit(s[1]) /\ s[1] # "0"
    \/ /\ Len(s) = 2
       /\ \/ s[1] = "3" /\ s[2] \in {"0", "1"}
          \/ s[1] \in {"1", "2"} /\ IsDigit(s[2])
          \/ s[1] \in {"0", " "} /\ IsDigit(s[2]) /\ s[2] # "0"

\* %M of strptime: [0-5]\d|\d
MinuteField(s) ==
    \/ Len(s) = 1 /\ IsDigit(s[1])
    \/ Len(s) = 2 /\ s[1] \in {"0", "1", "2", "3", "4", "5"} /\ IsDigit(s[2])

\* %Y of strptime: \d\d\d\d
YearField(s) == Len(s) = 4 /\ AllDigits(s)

NoTime == [tm_year |-> 0, tm_mon |-> 0, tm_mday |-> 0, tm_min |-> 0]

\* strptime(date, "%d/%M/%Y"): the whole string must match; no month
\* directive is present, so tm_mon keeps its default 1 and the day is
\* checked against January; year 0 is rejected by datetime.date
strptime(date) ==
    LET parts == Split(date, "/")
    IN IF /\ Len(parts) = 3
          /\ DayField(parts[1])
          /\ MinuteField(parts[2])
          /\ YearField(parts[3])
          /\ DigitsValue(parts[3]) >= 1
       THEN [ok |-> TRUE,
             tm |-> [tm_year |-> DigitsValue(parts[3]),
                     tm_mon  |-> 1,
                     tm_mday |-> DigitsValue(LStrip(parts[1])),
                     tm_min  |-> DigitsValue(parts[2])]]
       ELSE [ok |-> FALSE, tm |-> NoTime]

\* strftime("%M/%d/%y", tm) of Python 2: a year below 1900 is accepted only
\* as a two-digit year (accept2dyear), otherwise ValueError
strftime(tm) ==
    IF tm.tm_year < 1900 /\ tm.tm_year > 99
    THEN [ok |-> FALSE, text |-> <<>>]
    ELSE [ok |-> TRUE,
          text |-> Pad2(tm.tm_min) \o <<"/">> \o Pad2(tm.tm_mday)
                   \o <<"/">> \o Pad2(tm.tm_year % 100)]

convert_date(date) ==
    LET t == strptime(date)
        r == IF t.ok THEN strftime(t.tm) ELSE [ok |-> FALSE, text |-> <<>>]
    IN IF r.ok THEN [exc |-> "none", value |-> r.text]
       ELSE [exc |-> "ValueError", value |-> <<>>]

(***************************************************************************)
(* Rosters and filtering                                                   *)
(***************************************************************************)
vsc == <<"v", "s", "c">>

\* slurm_monthly_usage.py load_users:
\*   set([l.rstrip() for l in userfile.readlines() if l.startswith("vsc")])
load_users(file) ==
    {RStrip(file[i]) : i \in {j \in 1..Len(file) : StartsWith(file[j], vsc)}}

\* filterByRoster with the membership test inverted
filterByRosterInverted(usageMap, roster) ==
    [u \in {k \in DOMAIN usageMap : k \notin roster} |-> usageMap[u]]

\* slurm_monthly_usage.py report:
\*   dict(filter(lambda kv: kv[0] in self.users, info.items()))
filterByRoster(usageMap, roster) ==
    [u \in {k \in DOMAIN usageMap : k \in roster} |-> usageMap[u]]

\* filterByOrganization testing membership in the whole roster instead of
\* the company's own users
filterByOrganizationWholeRoster(usageMap, orgRoster) ==
    [company \in DOMAIN orgRoster |->
        [u \in {k \in DOMAIN usageMap :
                    \E c \in DOMAIN orgRoster : k \in orgRoster[c]} |-> usageMap[u]]]

\* slurm_report_usage.py report:
\*   for (company, users) in self.users.items():
\*       relevant_info[company] = dict(filter(lambda kv: kv[0] in users, info.items()))
filterByOrganization(usageMap, orgRoster) ==
    [company \in DOMAIN orgRoster |->
        [u \in {k \in DOMAIN usageMap : k \in orgRoster[company]} |-> usageMap[u]]]

(***************************************************************************)
(* Inputs: report texts, user files, dates                                 *)
(***************************************************************************)
vsc1 == <<"v", "s", "c", "1">>
vsc2 == <<"v", "s", "c", "2">>
gvo1 == <<"g", "v", "o", "1">>

Logins == {vsc1, vsc2, gvo1}

\* one --parsable2 data row: Cluster|Login|Used
Row(login, used) == <<"c", "|">> \o login \o <<"|">> \o used

DashLine == <<"-", "-", "-">>
TextLine == <<"U", "s", "a", "g", "e">>
HeaderLine == <<"C", "|", "L", "|", "U">>

\* the lines a report text is made of below its header
RowUniverse ==
    { Row(vsc1, <<"1", "0", "0">>),
      Row(vsc1, <<"5">>),
      Row(vsc2, <<"7">>),
      Row(vsc2, <<"x">>),
      Row(vsc2, <<"-", "5">>),
      <<"c", "|">> \o gvo1 \o <<"|", "N", "|", "a", "|", "g", "|", "4", "2">>,
      <<"j", "u", "n", "k">> }

\* what precedes the data rows: boundaries, banner text, header
PrefixUniverse ==
    { <<>>,
      <<HeaderLine>>,
      <<DashLine>>,
      <<DashLine, HeaderLine>>,
      <<TextLine, DashLine, TextLine>>,
      <<DashLine, DashLine>>,
      <<DashLine, DashLine, HeaderLine>>,
      <<DashLine, TextLine, TextLine, <<"-">>, HeaderLine>>,
      <<DashLine, DashLine, DashLine, HeaderLine>> }

SeqsUpTo(S, n) == UNION {[1..k -> S] : k \in 0..n}

ReportTexts ==
    {p \o rows : p \in PrefixUniverse, rows \in SeqsUpTo(RowUniverse, MaxRows)}

\* the hours sreport prints for a user: CPU row, then GPU row
CpuText(u) ==
    IF u = vsc1 THEN <<"1", "0", "0">>
    ELSE IF u = vsc2 THEN <<"2", "0", "0">>
    ELSE <<"4", "2">>

GpuText(u) ==
    IF u = vsc1 THEN <<"5">>
    ELSE IF u = vsc2 THEN <<"0">>
    ELSE <<"7">>

\* the data rows of a well-formed report of the users in us
RECURSIVE UserRows(_)
UserRows(us) ==
    IF us = {} THEN <<>>
    ELSE LET u == CHOOSE x \in us : TRUE
         IN <<Row(u, CpuText(u)), Row(u, GpuText(u))>> \o UserRows(us \ {u})

RosterTexts ==
    {<<DashLine, TextLine, DashLine, HeaderLine>> \o UserRows(us) : us \in SUBSET Logins}

\* lines of a flat user file, as readlines() returns them
UserLineUniverse ==
    { vsc1 \o <<"\n">>,
      vsc2 \o <<" ", "\n">>,
      vsc2,
      <<" ">> \o vsc1 \o <<"\n">>,
      gvo1 \o <<"\n">> }

FlatUserFiles == SeqsUpTo(UserLineUniverse, MaxUserLines)

\* a yaml user file, as yaml.load returns it: company -> users
Companies == {"acme", "beta"}

GroupedUserFiles ==
    UNION {[cs -> SUBSET Logins] : cs \in SUBSET Companies}

DayTexts == {<<"0", "1">>, <<"1">>, <<"2", "9">>, <<"3", "0">>, <<"3", "1">>,
             <<"3", "2">>, <<"0", "0">>}
MonthTexts == {<<"0", "2">>, <<"2">>, <<"0", "4">>, <<"1", "2">>, <<"1", "3">>,
               <<"0", "0">>, <<"6", "0">>}
YearTexts == {<<"2", "0", "2", "0">>, <<"2", "0", "2", "1">>,
              <<"1", "9", "9", "9">>, <<"1", "8", "0", "0">>, <<"2", "0">>}

DateText(d, m, y) == d \o <<"/">> \o m \o <<"/">> \o y

DateTexts ==
    {DateText(d, m, y) : d \in DayTexts, m \in MonthTexts, y \in YearTexts}
    \cup {<<"2", "0", "2", "0", "-", "0", "2", "-", "0", "1">>, <<>>}

EndDateTexts ==
    { DateText(<<"2", "9">>, <<"0", "2">>, <<"2", "0", "2", "0">>),
      DateText(<<"3", "1">>, <<"1", "3">>, <<"2", "0", "2", "0">>),
      DateText(<<"0", "1">>, <<"0", "3">>, <<"2", "0">>) }

DefaultStart == DateText(<<"0", "1">>, <<"0", "2">>, <<"2", "0", "2", "0">>)
DefaultEnd == DateText(<<"2", "9">>, <<"0", "2">>, <<"2", "0", "2", "0">>)
DefaultText == <<DashLine, DashLine, HeaderLine>> \o UserRows({vsc1, vsc2})
DefaultUserFile == <<vsc1 \o <<"\n">>>>

(***************************************************************************)
(* State machine: do -> load_users -> report(cluster)                      *)
(***************************************************************************)
Cluster == <<"c">>

OtherCluster == <<"d">>

ClusterNames == {Cluster, OtherCluster}

\* from vsc.config.base import GENT_PRODUCTION_COMPUTE_CLUSTERS
GENT_PRODUCTION_COMPUTE_CLUSTERS == <<Cluster, OtherCluster>>

\* the loop variable mistaken for the first cluster of the list
FirstCluster == clusters[1]

\* the cluster of the running iteration of do's for loop
CurrentCluster == clusters[idx]

\* sreport prints text for Cluster and the default report for any other
OnlyCluster(text) ==
    [c \in ClusterNames |-> IF c = Cluster THEN text ELSE DefaultText]

NoCommand == [cluster |-> <<>>, startdate |-> <<>>, enddate |-> <<>>]

InitWith(sc, uf, st, en, out) ==
    /\ script = sc
    /\ userfile = uf
    /\ start = st
    /\ end = en
    /\ stdout = out
    /\ pc = "make_time"
    /\ exc = "none"
    /\ users = {}
    /\ sreport_command = NoCommand
    /\ output = <<>>
    /\ info = EmptyMap
    /\ relevant_info = EmptyMap

\* state of CLI.__init__ and of main before make_time
InitMain(oc, dr) ==
    /\ opt_cluster = oc
    /\ dry_run = dr
    /\ clusters = <<>>
    /\ idx = 0
    /\ errors = "[]"
    /\ steps = <<>>
    /\ exiting = "no"
    /\ write_calls = 0

\* critical_exception: logging.exception, then exit_from_errorcode(2, msg)
\* here without the exit: the exception is only logged
critical_exception_logs_only == "no"

\* critical_exception: logging.exception, then exit_from_errorcode(2, msg),
\* which leaves the process through sys.exit (finally blocks still run)
critical_exception == "critical"

\* the report text varies
InitTexts ==
    \E out \in ReportTexts :
        /\ InitWith("monthly", DefaultUserFile, DefaultStart, DefaultEnd,
                    OnlyCluster(out))
        /\ InitMain(Cluster, FALSE)

\* the roster and the usage vary
InitRosters ==
    \/ \E uf \in FlatUserFiles, out \in RosterTexts :
           /\ InitWith("monthly", uf, DefaultStart, DefaultEnd, OnlyCluster(out))
           /\ InitMain(Cluster, FALSE)
    \/ \E uf \in GroupedUserFiles, out \in RosterTexts :
           /\ InitWith("report_usage", uf, DefaultStart, DefaultEnd,
                       OnlyCluster(out))
           /\ InitMain(Cluster, FALSE)

\* the dates vary
InitDates ==
    \E st \in DateTexts, en \in EndDateTexts :
        /\ InitWith("monthly", DefaultUserFile, st, en, OnlyCluster(DefaultText))
        /\ InitMain(Cluster, FALSE)

\* what sreport prints for one of several clusters
ClusterTexts ==
    RosterTexts
    \cup { <<HeaderLine>>,
           <<DashLine, DashLine, HeaderLine, Row(vsc2, <<"9">>)>>,
           <<DashLine, DashLine, HeaderLine, Row(vsc1, <<"8">>), Row(vsc1, <<"x">>)>> }

ClusterUserFiles ==
    { [f \in {"flat", "grouped"} |->
          IF f = "flat" THEN <<vsc1 \o <<"\n">>, vsc2 \o <<"\n">>>>
          ELSE [c \in Companies |-> IF c = "acme" THEN {vsc1} ELSE {vsc2, gvo1}]],
      [f \in {"flat", "grouped"} |->
          IF f = "flat" THEN <<vsc2>>
          ELSE [c \in {"acme"} |-> {vsc1, vsc2}]] }

\* the cluster option, dry-run and the clusters' reports vary
InitClusters ==
    \E sc \in {"monthly", "report_usage"}, uf \in ClusterUserFiles,
       oc \in {<<>>, OtherCluster}, dr \in BOOLEAN,
       out \in [ClusterNames -> ClusterTexts] :
        /\ InitWith(sc, uf[IF sc = "monthly" THEN "flat" ELSE "grouped"],
                    DefaultStart, DefaultEnd, out)
        /\ InitMain(oc, dr)

\* another subclass of CLI, with a do of its own
InitSubclass ==
    \E dr \in BOOLEAN :
        /\ InitWith("subclass", <<>>, DefaultStart, DefaultEnd,
                    OnlyCluster(DefaultText))
        /\ InitMain(<<>>, dr)

Init == InitTexts \/ InitRosters \/ InitDates \/ InitClusters \/ InitSubclass

\* main: self.make_time(); retrieve_timestamp_with_default may raise, and
\* make_time is called outside main's try
MakeTime ==
    /\ pc = "make_time"
    /\ steps' = Append(steps, "make_time")
    /\ \E ok \in BOOLEAN :
           IF ok THEN pc' = "do" /\ UNCHANGED exiting
           ELSE pc' = "exit" /\ exiting' = critical_exception
    /\ UNCHANGED <<script, userfile, start, end, stdout, exc, users,
                   sreport_command, output, info, relevant_info,
                   opt_cluster, dry_run, errors, write_calls, loopvars>>

\* do: clusters = GENT_PRODUCTION_COMPUTE_CLUSTERS, or (options.cluster,)
DoClusters ==
    IF opt_cluster # <<>> THEN <<opt_cluster>>
    ELSE GENT_PRODUCTION_COMPUTE_CLUSTERS

\* do: clusters and self.load_users() of slurm_monthly_usage.py
LoadUsersFlat ==
    /\ pc = "do"
    /\ script = "monthly"
    /\ steps' = Append(steps, "do")
    /\ clusters' = DoClusters
    /\ idx' = 1
    /\ users' = load_users(userfile)
    /\ pc' = "report"
    /\ UNCHANGED <<script, userfile, start, end, stdout, exc,
                   sreport_command, output, info, relevant_info,
                   opt_cluster, dry_run, errors, exiting, write_calls>>

\* do: clusters and self.load_users() of slurm_report_usage.py
LoadUsersGrouped ==
    /\ pc = "do"
    /\ script = "report_usage"
    /\ steps' = Append(steps, "do")
    /\ clusters' = DoClusters
    /\ idx' = 1
    /\ users' = userfile
    /\ pc' = "report"
    /\ UNCHANGED <<script, userfile, start, end, stdout, exc,
                   sreport_command, output, info, relevant_info,
                   opt_cluster, dry_run, errors, exiting, write_calls>>

\* report: the convert_date calls and SREPORT_TEMPLATE.format
FormatCommand ==
    /\ pc = "report"
    /\ exc = "none"
    /\ LET s == convert_date(start)
           e == convert_date(end)
       IN IF s.exc # "none" \/ e.exc # "none"
          THEN /\ exc' = IF s.exc # "none" THEN s.exc ELSE e.exc
               /\ UNCHANGED <<pc, sreport_command>>
          ELSE /\ pc' = "formatted"
               /\ sreport_command' = [cluster |-> CurrentCluster,
                                      startdate |-> s.value,
                                      enddate |-> e.value]
               /\ UNCHANGED exc
    /\ UNCHANGED <<script, userfile, start, end, stdout, users,
                   output, info, relevant_info, mainvars, loopvars>>

\* report: ec, output = run(sreport_command)
Run ==
    /\ pc = "formatted"
    /\ output' = stdout[sreport_command.cluster]
    /\ pc' = "ran"
    /\ UNCHANGED <<script, userfile, start, end, stdout, exc, users,
                   sreport_command, info, relevant_info, mainvars, loopvars>>

\* report: info = self.process(output)
Process ==
    /\ pc = "ran"
    /\ exc = "none"
    /\ LET r == process(output)
       IN IF r.exc # "none"
          THEN /\ exc' = r.exc
               /\ UNCHANGED <<pc, info>>
          ELSE /\ pc' = "processed"
               /\ info' = r.value
               /\ UNCHANGED exc
    /\ UNCHANGED <<script, userfile, start, end, stdout, users,
                   sreport_command, output, relevant_info, mainvars, loopvars>>

\* report of slurm_monthly_usage.py: relevant_info
FilterFlat ==
    /\ pc = "processed"
    /\ script = "monthly"
    /\ relevant_info' = filterByRoster(info, users)
    /\ pc' = "done"
    /\ UNCHANGED <<script, userfile, start, end, stdout, exc, users,
                   sreport_command, output, info, mainvars, loopvars>>

\* report of slurm_report_usage.py: relevant_info
FilterGrouped ==
    /\ pc = "processed"
    /\ script = "report_usage"
    /\ relevant_info' = filterByOrganization(info, users)
    /\ pc' = "done"
    /\ UNCHANGED <<script, userfile, start, end, stdout, exc, users,
                   sreport_command, output, info, mainvars, loopvars>>

\* do: the for loop calls report for the next cluster; report's locals
\* belong to the new call
NextCluster ==
    /\ pc = "done"
    /\ idx < Len(clusters)
    /\ idx' = idx + 1
    /\ pc' = "report"
    /\ sreport_command' = NoCommand
    /\ output' = <<>>
    /\ info' = EmptyMap
    /\ relevant_info' = EmptyMap
    /\ UNCHANGED <<script, userfile, start, end, stdout, exc, users,
                   clusters, mainvars>>

\* do: the loop is over and do returns None; main: errors = self.do(...)
DoReturns ==
    /\ pc = "done"
    /\ idx = Len(clusters)
    /\ errors' = "None"
    /\ pc' = "final"
    /\ UNCHANGED <<script, userfile, start, end, stdout, exc, users,
                   sreport_command, output, info, relevant_info,
                   opt_cluster, dry_run, steps, exiting, write_calls, loopvars>>

\* CLI.do as another subclass defines it: it returns nothing, returns
\* something that evaluates to true, or raises (as CLI.do itself does)
DoSubclass ==
    /\ pc = "do"
    /\ script = "subclass"
    /\ exc = "none"
    /\ steps' = Append(steps, "do")
    /\ \E outcome \in {"None", "errors", "raise"} :
           IF outcome = "raise"
           THEN exc' = "Exception" /\ UNCHANGED <<pc, errors>>
           ELSE errors' = outcome /\ pc' = "final" /\ UNCHANGED exc
    /\ UNCHANGED <<script, userfile, start, end, stdout, users,
                   sreport_command, output, info, relevant_info,
                   opt_cluster, dry_run, exiting, write_calls, loopvars>>

\* main: except Exception as err: self.critical_exception(...)
DoRaised ==
    /\ pc \in {"do", "report", "ran"}
    /\ exc # "none"
    /\ exiting' = critical_exception
    /\ pc' = "final"
    /\ UNCHANGED <<script, userfile, start, end, stdout, exc, users,
                   sreport_command, output, info, relevant_info,
                   opt_cluster, dry_run, errors, steps, write_calls, loopvars>>

\* main: finally: self.final(); a pending exit then leaves main
Final ==
    /\ pc = "final"
    /\ steps' = Append(steps, "final")
    /\ pc' = IF exiting # "no" THEN "exit" ELSE "post"
    /\ UNCHANGED <<script, userfile, start, end, stdout, exc, users,
                   sreport_command, output, info, relevant_info,
                   opt_cluster, dry_run, errors, exiting, write_calls, loopvars>>

\* main: self.post(errors); convert_timestamp or write_timestamp may raise
Post ==
    /\ pc = "post"
    /\ steps' = Append(steps, "post")
    /\ IF errors = "errors"
       THEN /\ exiting' = "warning"
            /\ pc' = "exit"
            /\ UNCHANGED write_calls
       ELSE IF ~dry_run
       THEN \E outcome \in {"written", "convert_failed", "write_failed"} :
               /\ write_calls' = IF outcome = "convert_failed" THEN write_calls
                                 ELSE write_calls + 1
               /\ exiting' = IF outcome = "written" THEN exiting
                             ELSE critical_exception
               /\ pc' = IF outcome = "written" \/ critical_exception = "no"
                        THEN "epilogue" ELSE "exit"
       ELSE /\ pc' = "epilogue"
            /\ UNCHANGED <<exiting, write_calls>>
    /\ UNCHANGED <<script, userfile, start, end, stdout, exc, users,
                   sreport_command, output, info, relevant_info,
                   opt_cluster, dry_run, errors, loopvars>>

\* main: self.fulloptions.epilogue(...)
Epilogue ==
    /\ pc = "epilogue"
    /\ steps' = Append(steps, "epilogue")
    /\ pc' = "exit"
    /\ UNCHANGED <<script, userfile, start, end, stdout, exc, users,
                   sreport_command, output, info, relevant_info,
                   opt_cluster, dry_run, errors, exiting, write_calls, loopvars>>

Next ==
    \/ MakeTime
    \/ LoadUsersFlat
    \/ LoadUsersGrouped
    \/ DoSubclass
    \/ FormatCommand
    \/ Run
    \/ Process
    \/ FilterFlat
    \/ FilterGrouped
    \/ NextCluster
    \/ DoReturns
    \/ DoRaised
    \/ Final
    \/ Post
    \/ Epilogue

Spec == Init /\ [][Next]_vars

(***************************************************************************)
(* Vocabulary of the properties: the report format as the specification    *)
(* describes it                                                            *)
(***************************************************************************)
\* a line consisting solely of dash characters
IsBoundary(l) == Len(l) >= 1 /\ {l[i] : i \in 1..Len(l)} = {"-"}

Boundaries(t) == {i \in 1..Len(t) : IsBoundary(t[i])}

HasTwoBoundaries(t) == Cardinality(Boundaries(t)) >= 2

\* position of the second boundary line
SecondBoundary(t) ==
    CHOOSE i \in Boundaries(t) :
        Cardinality({j \in Boundaries(t) : j < i}) = 1

\* the header line follows the second boundary
HasHeader(t) == HasTwoBoundaries(t) /\ SecondBoundary(t) + 1 <= Len(t)

\* the data rows: every line after the header
DataRows(t) == SubSeq(t, SecondBoundary(t) + 2, Len(t))

Fields(l) == Split(l, "|")

HasLogin(l) == Len(Fields(l)) >= 2

LoginOf(l) == Fields(l)[2]

UsageOf(l) == Fields(l)[Len(Fields(l))]

\* a base-10 integer numeral, optionally signed
IsInteger(s) ==
    \/ AllDigits(s)
    \/ Len(s) >= 2 /\ s[1] \in {"+", "-"} /\ AllDigits(Tail(s))

\* number of complete pairs among the data rows
Pairs(t) == 0..((Len(DataRows(t)) \div 2) - 1)

CpuRow(t, i) == DataRows(t)[2 * i + 1]

GpuRow(t, i) == DataRows(t)[2 * i + 2]

\* two boundary lines, a header, 2N rows in N pairs of N distinct logins,
\* every usage a non-negative decimal numeral
WellFormed(t) ==
    /\ Cardinality(Boundaries(t)) = 2
    /\ HasHeader(t)
    /\ Len(DataRows(t)) % 2 = 0
    /\ \A k \in 1..Len(DataRows(t)) :
           HasLogin(DataRows(t)[k]) /\ AllDigits(UsageOf(DataRows(t)[k]))
    /\ \A i \in Pairs(t) : LoginOf(CpuRow(t, i)) = LoginOf(GpuRow(t, i))
    /\ \A i, j \in Pairs(t) :
           i # j => LoginOf(CpuRow(t, i)) # LoginOf(CpuRow(t, j))

\* process has been called on output and has returned or raised
Extracted ==
    \/ pc \in {"processed", "done"}
    \/ pc = "ran" /\ exc # "none"

\* process returned
Returned == pc \in {"processed", "done"}

(***************************************************************************)
(* Properties                                                              *)
(***************************************************************************)
\* C1: on a well-formed report text of N users process returns a mapping of
\* exactly N entries; the entry of the login of row 2i holds the usage of
\* row 2i as compute hours and the usage of row 2i+1 as accelerator hours,
\* both non-negative.
C1_WellFormedExtract ==
    (Extracted /\ WellFormed(output)) =>
        /\ Returned
        /\ Cardinality(DOMAIN info) = Len(DataRows(output)) \div 2
        /\ DOMAIN info = {LoginOf(CpuRow(output, i)) : i \in Pairs(output)}
        /\ \A i \in Pairs(output) :
               LET rec == info[LoginOf(CpuRow(output, i))]
               IN /\ rec.cpu = DigitsValue(UsageOf(CpuRow(output, i)))
                  /\ rec.gpu = DigitsValue(UsageOf(GpuRow(output, i)))
                  /\ rec.cpu >= 0
                  /\ rec.gpu >= 0

\* C1 witness: a well-formed text of two users with different hours has
\* been processed
C1_Witness ==
    /\ Returned
    /\ WellFormed(output)
    /\ Len(DataRows(output)) = 4
    /\ \E u \in DOMAIN info : info[u].cpu # info[u].gpu

\* C2: a report text with an odd number of data rows makes process fail;
\* it never returns a mapping.  (Any exception counts as the failure: the
\* code defines no error class of its own.)
C2_OddRowsFail ==
    (Extracted /\ HasHeader(output) /\ Len(DataRows(output)) % 2 = 1) =>
        ~Returned

\* C3: a pair of rows 2i, 2i+1 with different logins makes process fail; it
\* never returns a mapping.
C3_MismatchFails ==
    (/\ Extracted
     /\ HasHeader(output)
     /\ \E i \in Pairs(output) :
            /\ HasLogin(CpuRow(output, i))
            /\ HasLogin(GpuRow(output, i))
            /\ LoginOf(CpuRow(output, i)) # LoginOf(GpuRow(output, i)))
    => ~Returned

\* C4: a report text lacking the first or the second boundary line fails
\* with MalformedReportError and with no other kind of failure.
C4_MissingBoundaryError ==
    (Extracted /\ ~HasTwoBoundaries(output)) => exc = "MalformedReportError"

C6_AllOrNothing ==
    /\ Returned => \A u \in DOMAIN info : DOMAIN info[u] = {"cpu", "gpu"}
    /\ (Extracted /\ ~Returned) => info = EmptyMap /\ relevant_info = EmptyMap
    /\ (/\ Extracted
        /\ HasHeader(output)
        /\ \E k \in 1..Len(DataRows(output)) :
               ~IsInteger(UsageOf(DataRows(output)[k])))
       => ~Returned

\* C7: with a flat roster the keys of the filtered mapping are exactly the
\* keys of the usage mapping that are in the roster, every retained user
\* keeps its record unchanged, and a user absent from the roster never
\* appears.
C7_FilterByRoster ==
    (pc = "done" /\ script = "monthly") =>
        /\ DOMAIN relevant_info = DOMAIN info \cap users
        /\ DOMAIN relevant_info \subseteq DOMAIN info
        /\ DOMAIN relevant_info \subseteq users
        /\ \A u \in DOMAIN relevant_info : relevant_info[u] = info[u]
        /\ \A u \in Logins : u \notin users => u \notin DOMAIN relevant_info

\* C7 witness: the filter has kept one user and dropped another, and the
\* roster names a user without usage
C7_Witness ==
    /\ pc = "done"
    /\ script = "monthly"
    /\ DOMAIN relevant_info # {}
    /\ DOMAIN relevant_info # DOMAIN info
    /\ users \ DOMAIN info # {}

\* every user some organization of the roster claims
AllRosterUsers == UNION {users[c] : c \in DOMAIN users}

\* C8: with a grouped roster every organization's output holds exactly the
\* usage entries of its own users, the union of the outputs' keys is the
\* intersection of the usage keys with the union of the organizations'
\* users, and a user is listed under two organizations only if the roster
\* assigns it to both.
C8_FilterByOrganization ==
    (pc = "done" /\ script = "report_usage") =>
        /\ DOMAIN relevant_info = DOMAIN users
        /\ \A c \in DOMAIN users :
               /\ DOMAIN relevant_info[c] = DOMAIN info \cap users[c]
               /\ \A u \in DOMAIN relevant_info[c] :
                      relevant_info[c][u] = info[u]
        /\ UNION {DOMAIN relevant_info[c] : c \in DOMAIN relevant_info}
               = DOMAIN info \cap AllRosterUsers
        /\ \A c1, c2 \in DOMAIN relevant_info :
               \A u \in DOMAIN relevant_info[c1] \cap DOMAIN relevant_info[c2] :
                   u \in users[c1] /\ u \in users[c2]

\* C8 witness: two organizations with different users, one user claimed by
\* one organization only, and a user with usage that no organization claims
C8_Witness ==
    /\ pc = "done"
    /\ script = "report_usage"
    /\ DOMAIN users = Companies
    /\ \E c1, c2 \in Companies :
           /\ c1 # c2
           /\ DOMAIN relevant_info[c1] \ DOMAIN relevant_info[c2] # {}
           /\ DOMAIN relevant_info[c2] # {}
    /\ DOMAIN info \ AllRosterUsers # {}

\* a DD/MM/YYYY text naming a day of the calendar
DaysInMonth(m, y) ==
    IF m \in {4, 6, 9, 11} THEN 30
    ELSE IF m # 2 THEN 31
    ELSE IF (y % 4 = 0 /\ y % 100 # 0) \/ y % 400 = 0 THEN 29
    ELSE 28

IsCalendarDate(text) ==
    LET parts == Split(text, "/")
    IN /\ Len(parts) = 3
       /\ AllDigits(parts[1]) /\ Len(parts[1]) <= 2
       /\ AllDigits(parts[2]) /\ Len(parts[2]) <= 2
       /\ AllDigits(parts[3]) /\ Len(parts[3]) = 4
       /\ DigitsValue(parts[2]) \in 1..12
       /\ DigitsValue(parts[1]) \in
              1..DaysInMonth(DigitsValue(parts[2]), DigitsValue(parts[3]))

\* converted is the date of text (DD/MM/YYYY) written month/day/year
SameDateMonthFirst(converted, text) ==
    LET src == Split(text, "/")
        dst == Split(converted, "/")
    IN /\ Len(dst) = 3
       /\ \A k \in 1..3 : AllDigits(dst[k])
       /\ DigitsValue(dst[1]) = DigitsValue(src[2])
       /\ DigitsValue(dst[2]) = DigitsValue(src[1])
       /\ DigitsValue(dst[3]) = DigitsValue(src[3])

\* report has formatted its command from the converted dates
CommandFormatted == pc \in {"formatted", "ran", "processed", "done"}

\* convert_date raised inside report
ConvertRaised == pc = "report" /\ exc # "none"

\* C9: for valid calendar dates convert_date returns the same date in
\* month/day/year order: month first, day second, and the input's year.
C9_ConvertDate ==
    (IsCalendarDate(start) /\ IsCalendarDate(end)) =>
        /\ ~ConvertRaised
        /\ CommandFormatted =>
               /\ SameDateMonthFirst(sreport_command.startdate, start)
               /\ SameDateMonthFirst(sreport_command.enddate, end)

\* C10: convert_date fails on a text that is no valid calendar date, so
\* report never formats a command from one.
C10_InvalidDateFails ==
    (~IsCalendarDate(start) \/ ~IsCalendarDate(end)) =>
        /\ ~CommandFormatted
        /\ sreport_command = NoCommand

\* the text sreport prints for the cluster of the running report call
OwnText == stdout[clusters[idx]]

\* the roster load_users builds from the user file
LoadedRoster == IF script = "monthly" THEN load_users(userfile) ELSE userfile

\* some line of text t names login u with usage n
HasUsageLine(t, u, n) ==
    \E k \in 1..Len(t) :
        /\ HasLogin(t[k])
        /\ LoginOf(t[k]) = u
        /\ PyInt(UsageOf(t[k])).ok
        /\ PyInt(UsageOf(t[k])).val = n

\* some line of text t carries usage n
HasUsage(t, n) ==
    \E k \in 1..Len(t) : PyInt(UsageOf(t[k])).ok /\ PyInt(UsageOf(t[k])).val = n

\* every record of mapping m is info's record of the same user
FromInfo(m) == \A u \in DOMAIN m : u \in DOMAIN info /\ m[u] = info[u]

\* C11: every cluster's report is processed on its own: the output, the
\* usage mapping and the filtered result of a report call hold only what
\* was parsed from the text printed for that call's cluster, and the roster
\* loaded before the loop is the same in every report call.
C11_ClustersIndependent ==
    (script \in {"monthly", "report_usage"}) =>
        /\ pc \in {"formatted", "ran", "processed", "done"} =>
               sreport_command.cluster = clusters[idx]
        /\ pc \in {"ran", "processed", "done"} => output = OwnText
        /\ Returned =>
               /\ info = process(OwnText).value
               /\ \A u \in DOMAIN info :
                      /\ HasUsageLine(OwnText, u, info[u].cpu)
                      /\ HasUsage(OwnText, info[u].gpu)
        /\ pc = "done" =>
               IF script = "monthly" THEN FromInfo(relevant_info)
               ELSE \A c \in DOMAIN relevant_info : FromInfo(relevant_info[c])
        /\ pc \in {"report", "formatted", "ran", "processed", "done"} =>
               users = LoadedRoster

\* C11 witness: the report of the second of two clusters is done, the first
\* cluster printed a user the second did not, and the filter kept a user
C11_Witness ==
    /\ pc = "done"
    /\ idx = 2
    /\ script = "monthly"
    /\ stdout[clusters[1]] # stdout[clusters[2]]
    /\ \E u \in DOMAIN process(stdout[clusters[1]]).value : u \notin DOMAIN info
    /\ DOMAIN relevant_info # {}

\* the steps of main, in the order of CLI.main
MainOrder == <<"make_time", "do", "final", "post", "epilogue">>

HasStep(name) == \E k \in 1..Len(steps) : steps[k] = name

\* C12: the steps of main are called in the order make_time, do, final,
\* post, epilogue; final is called after do whether do returned or raised;
\* write_timestamp is called at most once, only in post, only after do
\* returned something false and without dry-run: never when do raised,
\* returned errors, or dry-run is set.
C12_MainOrder ==
    /\ Len(steps) <= Len(MainOrder)
    /\ \A k \in 1..Len(steps) : steps[k] = MainOrder[k]
    /\ (HasStep("do") /\ pc \in {"post", "epilogue", "exit"}) => HasStep("final")
    /\ write_calls <= 1
    /\ write_calls = 1 =>
           /\ HasStep("post")
           /\ errors = "None"
           /\ exc = "none"
           /\ ~dry_run
    /\ (exc # "none" \/ errors = "errors" \/ dry_run) => write_calls = 0

\* C12 witness: a run has gone through all five steps and post has written
\* the timestamp
C12_Witness ==
    /\ pc = "exit"
    /\ steps = MainOrder
    /\ write_calls = 1
    /\ exiting = "no"

\* a run in which do raised has called final and left main without post
C12_RaisedWitness ==
    /\ pc = "exit"
    /\ exc # "none"
    /\ steps = <<"make_time", "do", "final">>
    /\ exiting = "critical"

====
